---- MODULE Spec2Model ----
(***************************************************************************)
(* Model of examples/python-client.py: the synchronous and asynchronous    *)
(* JSON-RPC-over-HTTP clients of the mcp-web-scrape server                 *)
(* (MCPWebScrapeClient, AsyncMCPWebScrapeClient) and the concurrent block  *)
(* of async_example (asyncio.gather over fetch_content tasks).             *)
(*                                                                         *)
(* The server is an untrusted collaborator: every response (connection     *)
(* failure, HTTP status, JSON body) is chosen nondeterministically.        *)
(* Response bodies are JSON objects; a body that is not JSON, or whose     *)
(* result member is not an object, is outside the modelled inputs.         *)
(***************************************************************************)
EXTENDS Integers, Sequences, FiniteSets

VARIABLES
    mode,       \* which client class was constructed: "sync" or "async"
    base_url,   \* self.base_url, a sequence of URL chunks
    now,        \* wall clock (time.time()), in ticks of 1/Resolution second
    tasks,      \* the calls in progress on the client, in submission order
    sent,       \* ids of the JSON-RPC requests POSTed on this session, in order
    order,      \* indices of tasks in the order their responses arrived
    phase,      \* position of the embedding caller
    results,    \* what asyncio.gather returned (line 270)
    failed      \* positions the caller's loop reported as failed (lines 272-276)

vars == <<mode, base_url, now, tasks, sent, order, phase, results, failed>>

(***************************************************************************)
(* Bounds of the model.                                                    *)
(***************************************************************************)
MaxClock == 2       \* the clock stops after this many ticks
Resolution == 2     \* clock ticks per second
MaxRequests == 2    \* JSON-RPC requests POSTed on one session
MaxTasks == 3       \* coroutines handed to one asyncio.gather

(***************************************************************************)
(* Python values.  dict and list are kept apart by a type tag, so that the *)
(* defaults {} and [] are different values.                                *)
(***************************************************************************)
Dict(f) == [type |-> "dict", items |-> f]
List(s) == [type |-> "list", items |-> s]
EmptyDict == Dict(<<>>)
EmptyList == List(<<>>)

\* key in d
Has(d, key) == key \in DOMAIN d.items

\* d.get(key, default)
Get(d, key, default) == IF Has(d, key) THEN d.items[key] ELSE default

\* {**a, **b}: the keys of both, b winning
Merge(a, b) ==
    [k \in (DOMAIN a) \cup (DOMAIN b) |-> IF k \in DOMAIN b THEN b[k] ELSE a[k]]

\* Optional[str]: None is the empty tuple, a string s is <<s>>
None == <<>>
Some(s) == <<s>>

\* truth value of an Optional[str] in `if pattern:`: None and "" are falsy
Truthy(p) == p # None /\ p[1] # ""

\* str.rstrip(c) on a sequence of chunks
RECURSIVE rstrip(_, _)
rstrip(s, c) ==
    IF s # <<>> /\ s[Len(s)] = c THEN rstrip(SubSeq(s, 1, Len(s) - 1), c) ELSE s

\* int(time.time()) when the clock shows t ticks
int_time(t) == 1700000000 + (t \div Resolution)

(***************************************************************************)
(* Exceptions.  The classes the code can raise, and Python's isinstance /  *)
(* except matching over their base classes.                                *)
(***************************************************************************)
\* raised by response.raise_for_status() (lines 35, 46, 74, 97; 133, 144, 172, 195)
HTTPErrorClass(m) ==
    IF m = "sync" THEN "requests.HTTPError" ELSE "aiohttp.ClientResponseError"

\* raised by session.get / session.post when no response arrives
ConnectionErrorClass(m) ==
    IF m = "sync" THEN "requests.ConnectionError" ELSE "aiohttp.ClientConnectionError"

\* raised at lines 101 and 199 for a response carrying an error member
InvocationErrorClass == "Exception"

TransportClasses ==
    {"requests.HTTPError", "requests.ConnectionError", "requests.RequestException",
     "aiohttp.ClientResponseError", "aiohttp.ClientConnectionError",
     "aiohttp.ClientError"}

\* the direct base class of an exception class
Base(cls) ==
    CASE cls = "requests.HTTPError" -> "requests.RequestException"
      [] cls = "requests.ConnectionError" -> "requests.RequestException"
      [] cls = "requests.RequestException" -> "OSError"
      [] cls = "OSError" -> "Exception"
      [] cls = "aiohttp.ClientResponseError" -> "aiohttp.ClientError"
      [] cls = "aiohttp.ClientConnectionError" -> "aiohttp.ClientError"
      [] cls = "aiohttp.ClientError" -> "Exception"
      [] cls = "Exception" -> "BaseException"
      [] OTHER -> "object"

\* issubclass(cls, handler): `except handler` intercepts an exception of class cls
RECURSIVE issubclass(_, _)
issubclass(cls, handler) ==
    IF cls = handler THEN TRUE
    ELSE IF cls = "object" THEN FALSE
    ELSE issubclass(Base(cls), handler)

(***************************************************************************)
(* The outcome of a call: a returned value or a raised exception.  parsed  *)
(* records whether response.json() was evaluated on the way.               *)
(***************************************************************************)
Return(v) == [kind |-> "return", cls |-> "", value |-> v, parsed |-> TRUE]
Raise(cls, v, parsed) == [kind |-> "raise", cls |-> cls, value |-> v, parsed |-> parsed]

\* session.get / session.post raising because the connection failed
connection_error(m) == Raise(ConnectionErrorClass(m), [status |-> 0], FALSE)

\* a status check that lets client errors through
raise_for_status_server_only(m, status) == 500 <= status

\* response.raise_for_status(): requests raises for 400..599, aiohttp for >= 400
raise_for_status(m, status) ==
    IF m = "sync" THEN 400 <= status /\ status < 600 ELSE 400 <= status

http_error(m, status) == Raise(HTTPErrorClass(m), [status |-> status], FALSE)

\* health_check after session.get (lines 35-36, 133-134)
health_check_result(m, resp) ==
    IF ~resp.connected THEN connection_error(m)
    ELSE IF raise_for_status(m, resp.status) THEN http_error(m, resp.status)
    ELSE Return(resp.body)

\* list_cache written by copying list_tools and keeping its key
list_result_tools_key(m, resp, key) ==
    IF ~resp.connected THEN connection_error(m)
    ELSE IF raise_for_status(m, resp.status) THEN http_error(m, resp.status)
    ELSE Return(Get(Get(resp.body, "result", EmptyDict), "tools", EmptyList))

\* list_tools / list_cache after session.post (lines 46-48, 74-76, 144-146, 172-174)
list_result(m, resp, key) ==
    IF ~resp.connected THEN connection_error(m)
    ELSE IF raise_for_status(m, resp.status) THEN http_error(m, resp.status)
    ELSE Return(Get(Get(resp.body, "result", EmptyDict), key, EmptyList))

\* _call_tool looking at the result member before the error member
call_tool_result_result_first(m, resp) ==
    IF ~resp.connected THEN connection_error(m)
    ELSE IF raise_for_status(m, resp.status) THEN http_error(m, resp.status)
    ELSE IF Has(resp.body, "result") THEN Return(resp.body.items["result"])
    ELSE IF Has(resp.body, "error")
         THEN Raise(InvocationErrorClass,
                    [prefix |-> "Tool call failed: ", payload |-> resp.body.items["error"]],
                    TRUE)
         ELSE Return(EmptyDict)

\* _call_tool after session.post (lines 97-103, 195-201)
call_tool_result(m, resp) ==
    IF ~resp.connected THEN connection_error(m)
    ELSE IF raise_for_status(m, resp.status) THEN http_error(m, resp.status)
    ELSE IF Has(resp.body, "error")
         THEN Raise(InvocationErrorClass,
                    [prefix |-> "Tool call failed: ", payload |-> resp.body.items["error"]],
                    TRUE)
         ELSE Return(Get(resp.body, "result", EmptyDict))

(***************************************************************************)
(* Requests.                                                               *)
(***************************************************************************)
\* session headers (lines 27-30, 119-122)
session_headers(m) ==
    [ContentType |-> "application/json",
     UserAgent |-> IF m = "sync" THEN "mcp-web-scrape-python-client/1.0"
                   ELSE "mcp-web-scrape-python-async-client/1.0"]

\* payload of list_tools / list_cache (lines 40-44, 68-72)
list_payload(method) == [jsonrpc |-> "2.0", id |-> 1, method |-> method]

\* a payload that forwards only the url argument
call_tool_payload_url_only(tool_name, arguments, t) ==
    [jsonrpc |-> "2.0",
     id |-> int_time(t),
     method |-> "tools/call",
     params |-> [name |-> tool_name,
                 arguments |-> [k \in (DOMAIN arguments) \cap {"url"} |-> arguments[k]]]]

\* payload of _call_tool (lines 87-95)
call_tool_payload(tool_name, arguments, t) ==
    [jsonrpc |-> "2.0",
     id |-> int_time(t),
     method |-> "tools/call",
     params |-> [name |-> tool_name, arguments |-> arguments]]

\* self.session.get(f"{self.base_url}/health")
Get_health(m, base) ==
    [verb |-> "GET", url |-> base \o <<"/", "health">>, headers |-> session_headers(m)]

\* self.session.post(f"{self.base_url}/message", json=payload)
Post_message(m, base, payload) ==
    [verb |-> "POST", url |-> base \o <<"/", "message">>,
     headers |-> session_headers(m), json |-> payload]

\* argument shaping of the wrappers
fetch_arguments(url, kwargs) == Merge([url |-> url], kwargs)
extract_arguments(url, format, kwargs) == Merge([url |-> url, format |-> format], kwargs)
summarize_arguments(url, kwargs) == Merge([url |-> url], kwargs)
purge_arguments(pattern) ==
    IF Truthy(pattern) THEN [pattern |-> pattern[1]] ELSE <<>>

(***************************************************************************)
(* Inputs: what callers pass and what the server answers.                  *)
(***************************************************************************)
BaseUrls == {<<"http://localhost:3000">>, <<"http://localhost:3000", "/">>}
Urls == {"https://example.com", "https://httpbin.org/html"}
UrlList ==
    <<"https://example.com", "https://httpbin.org/html",
      "https://jsonplaceholder.typicode.com/posts/1">>
Formats == {"text", "markdown"}
Kwargs == {<<>>, [include_links |-> TRUE, include_images |-> FALSE]}
Patterns == {None, Some(""), Some("example.com")}
ToolNames == {"fetch", "purge"}
ArgumentMaps == UNION {[D -> {"", "example.com"}] : D \in SUBSET {"url", "pattern"}}

Statuses == {200, 299, 300, 400, 500, 599}
ErrorPayload == Dict([code |-> "-1", message |-> "bad url"])
ResultValues ==
    {EmptyDict,
     Dict([tools |-> List(<<"fetch">>), resources |-> List(<<"cache://1">>)]),
     Dict([content |-> List(<<"text">>)])}
Bodies ==
    {EmptyDict, Dict([error |-> ErrorPayload]),
     Dict([result |-> Dict([content |-> List(<<"text">>)]), error |-> ErrorPayload])}
    \cup {Dict([result |-> r]) : r \in ResultValues}

NoResponse == [connected |-> FALSE, status |-> 0, body |-> EmptyDict]
Responses ==
    {NoResponse} \cup [connected : {TRUE}, status : Statuses, body : Bodies]
GatherResponses ==
    {NoResponse,
     [connected |-> TRUE, status |-> 500, body |-> EmptyDict],
     [connected |-> TRUE, status |-> 200, body |-> Dict([error |-> ErrorPayload])],
     [connected |-> TRUE, status |-> 200,
      body |-> Dict([result |-> Dict([content |-> List(<<"text">>)])])]}

\* the handlers a call site can write: `except Exception` (lines 242, 245, 282,
\* 321, 366) or an except clause naming the transport library's base class
Handlers(m) ==
    {"Exception", IF m = "sync" THEN "requests.RequestException" ELSE "aiohttp.ClientError"}

(***************************************************************************)
(* Tasks: one record per call on the client.                               *)
(***************************************************************************)
\* a call whose request has been handed to the session
InFlight(op, input, tool_name, arguments, request) ==
    [op |-> op, input |-> input, tool_name |-> tool_name, arguments |-> arguments,
     pc |-> "inflight", requests |-> <<request>>, responses |-> <<>>,
     outcome |-> <<>>, handler |-> <<>>, caught |-> FALSE]

\* a coroutine object that has not run yet (line 269)
Created(op, input) ==
    [op |-> op, input |-> input, tool_name |-> "", arguments |-> <<>>,
     pc |-> "created", requests |-> <<>>, responses |-> <<>>,
     outcome |-> <<>>, handler |-> <<>>, caught |-> FALSE]

ToolOps == {"fetch_content", "extract_content", "summarize_content", "purge_cache", "_call_tool"}
ListOps == {"list_tools", "list_cache"}

\* what the method makes of the response
result_of(m, op, resp) ==
    CASE op = "health_check" -> health_check_result(m, resp)
      [] op = "list_tools" -> list_result(m, resp, "tools")
      [] op = "list_cache" -> list_result(m, resp, "resources")
      [] OTHER -> call_tool_result(m, resp)

Idle == tasks = <<>> /\ phase = "calls"

(***************************************************************************)
(* Actions of a client used one call at a time.                            *)
(***************************************************************************)
\* time passes
Tick ==
    /\ now < MaxClock
    /\ now' = now + 1
    /\ UNCHANGED <<mode, base_url, tasks, sent, order, phase, results, failed>>

\* health_check up to session.get (lines 32-34, 130-132)
health_check ==
    /\ Idle
    /\ tasks' = <<InFlight("health_check", <<>>, "", <<>>, Get_health(mode, base_url))>>
    /\ UNCHANGED <<mode, base_url, now, sent, order, phase, results, failed>>

\* list_tools / list_cache up to session.post
list_call(op, method) ==
    /\ Idle
    /\ Len(sent) < MaxRequests
    /\ LET payload == list_payload(method) IN
       /\ tasks' = <<InFlight(op, <<>>, "", <<>>, Post_message(mode, base_url, payload))>>
       /\ sent' = Append(sent, payload.id)
    /\ UNCHANGED <<mode, base_url, now, order, phase, results, failed>>

\* lines 38-45, 136-143
list_tools == list_call("list_tools", "tools/list")

\* lines 66-73, 164-171
list_cache == list_call("list_cache", "resources/list")

\* _call_tool up to session.post (lines 85-96, 183-194), entered from op
call_tool(op, input, tool_name, arguments) ==
    /\ Idle
    /\ Len(sent) < MaxRequests
    /\ LET payload == call_tool_payload(tool_name, arguments, now) IN
       /\ tasks' = <<InFlight(op, input, tool_name, arguments,
                              Post_message(mode, base_url, payload))>>
       /\ sent' = Append(sent, payload.id)
    /\ UNCHANGED <<mode, base_url, now, order, phase, results, failed>>

\* a caller using _call_tool directly
_call_tool ==
    \E name \in ToolNames, arguments \in ArgumentMaps :
        call_tool("_call_tool", [tool_name |-> name, arguments |-> arguments],
                  name, arguments)

\* lines 50-52, 148-150
fetch_content ==
    \E url \in Urls, kwargs \in Kwargs :
        call_tool("fetch_content", [url |-> url, kwargs |-> kwargs],
                  "fetch", fetch_arguments(url, kwargs))

\* lines 54-60, 152-158
extract_content ==
    \E url \in Urls, format \in Formats, kwargs \in Kwargs :
        call_tool("extract_content", [url |-> url, format |-> format, kwargs |-> kwargs],
                  "extract", extract_arguments(url, format, kwargs))

\* lines 62-64, 160-162
summarize_content ==
    \E url \in Urls, kwargs \in Kwargs :
        call_tool("summarize_content", [url |-> url, kwargs |-> kwargs],
                  "summarize", summarize_arguments(url, kwargs))

\* lines 78-83, 176-181
purge_cache ==
    \E pattern \in Patterns :
        call_tool("purge_cache", [pattern |-> pattern], "purge", purge_arguments(pattern))

\* the response to task i arrives and the method runs to its return or raise
Complete(i, resp) ==
    /\ i \in DOMAIN tasks
    /\ tasks[i].pc = "inflight"
    /\ tasks' = [tasks EXCEPT ![i].pc = "done",
                              ![i].responses = <<resp>>,
                              ![i].outcome = <<result_of(mode, tasks[i].op, resp)>>]
    /\ order' = Append(order, i)
    /\ UNCHANGED <<mode, base_url, now, sent, phase, results, failed>>

Respond ==
    /\ phase = "calls"
    /\ \E resp \in Responses : Complete(1, resp)

\* the call site's except clause meets the raised exception
Handle ==
    /\ phase = "calls"
    /\ tasks # <<>>
    /\ tasks[1].pc = "done"
    /\ tasks[1].outcome[1].kind = "raise"
    /\ \E h \in Handlers(mode) :
          tasks' = [tasks EXCEPT ![1].pc = "handled",
                                 ![1].handler = <<h>>,
                                 ![1].caught = issubclass(tasks[1].outcome[1].cls, h)]
    /\ UNCHANGED <<mode, base_url, now, sent, order, phase, results, failed>>

\* the caller moves on to its next statement
Release ==
    /\ phase = "calls"
    /\ tasks # <<>>
    /\ tasks[1].pc \in {"done", "handled"}
    /\ tasks' = <<>>
    /\ order' = <<>>
    /\ UNCHANGED <<mode, base_url, now, sent, phase, results, failed>>

\* __init__ (lines 24-30, 113-115)
Init ==
    /\ mode \in {"sync", "async"}
    /\ \E b \in BaseUrls : base_url = rstrip(b, "/")
    /\ now = 0
    /\ tasks = <<>>
    /\ sent = <<>>
    /\ order = <<>>
    /\ phase = "calls"
    /\ results = <<>>
    /\ failed = {}

Next ==
    \/ Tick
    \/ health_check
    \/ list_tools
    \/ list_cache
    \/ _call_tool
    \/ fetch_content
    \/ extract_content
    \/ summarize_content
    \/ purge_cache
    \/ Respond
    \/ Handle
    \/ Release

Spec == Init /\ [][Next]_vars

(***************************************************************************)
(* The concurrent block of async_example (lines 262-276): fetch_content    *)
(* coroutines run as tasks of one client and are joined by asyncio.gather  *)
(* with return_exceptions=True.                                            *)
(***************************************************************************)
\* the i-th URL handed to the batch
url_at(i) == UrlList[((i - 1) % Len(UrlList)) + 1]

\* an exception instance as a value
exception_object(o) == [type |-> o.cls, args |-> o.value]

\* isinstance(x, Exception) (line 273)
isinstance_Exception(x) == issubclass(x.type, "Exception")

\* what gather puts in the list for one finished awaitable
gather_entry(o) == IF o.kind = "raise" THEN exception_object(o) ELSE o.value

\* a join that lists the outcomes in the order the tasks completed
gather_results_as_completed(ts, completed) ==
    [i \in DOMAIN ts |-> gather_entry(ts[completed[i]].outcome[1])]

\* asyncio.gather(*tasks, return_exceptions=True): one entry per awaitable, in
\* the order the awaitables were passed, whatever the order of completion
gather_results(ts, completed) == [i \in DOMAIN ts |-> gather_entry(ts[i].outcome[1])]

\* tasks = [client.fetch_content(url) for url in urls] (lines 262-269)
CreateTasks ==
    /\ phase = "init"
    /\ \E n \in 1..MaxTasks :
          tasks' = [i \in 1..n |-> Created("fetch_content", [url |-> url_at(i), kwargs |-> <<>>])]
    /\ phase' = "gathering"
    /\ UNCHANGED <<mode, base_url, now, sent, order, results, failed>>

\* task i runs fetch_content and _call_tool up to the await on session.post
TaskStart ==
    /\ phase = "gathering"
    /\ \E i \in DOMAIN tasks :
          /\ tasks[i].pc = "created"
          /\ LET input == tasks[i].input
                 arguments == fetch_arguments(input.url, input.kwargs)
                 payload == call_tool_payload("fetch", arguments, now)
             IN /\ tasks' = [tasks EXCEPT ![i] =
                                InFlight("fetch_content", input, "fetch", arguments,
                                         Post_message(mode, base_url, payload))]
                /\ sent' = Append(sent, payload.id)
    /\ UNCHANGED <<mode, base_url, now, order, phase, results, failed>>

\* the response of some in-flight task arrives; the task finishes
TaskComplete ==
    /\ phase = "gathering"
    /\ \E i \in DOMAIN tasks, resp \in GatherResponses : Complete(i, resp)

\* results = await asyncio.gather(...) returns once every task is done (line 270)
gather ==
    /\ phase = "gathering"
    /\ \A i \in DOMAIN tasks : tasks[i].pc = "done"
    /\ results' = gather_results(tasks, order)
    /\ phase' = "gathered"
    /\ UNCHANGED <<mode, base_url, now, tasks, sent, order, failed>>

\* the loop over enumerate(results) (lines 272-276)
Report ==
    /\ phase = "gathered"
    /\ failed' = {i \in DOMAIN results : isinstance_Exception(results[i])}
    /\ phase' = "reported"
    /\ UNCHANGED <<mode, base_url, now, tasks, sent, order, results>>

\* async with AsyncMCPWebScrapeClient() as client (lines 113-124, 255)
InitGather ==
    /\ mode = "async"
    /\ \E b \in BaseUrls : base_url = rstrip(b, "/")
    /\ now = 0
    /\ tasks = <<>>
    /\ sent = <<>>
    /\ order = <<>>
    /\ phase = "init"
    /\ results = <<>>
    /\ failed = {}

NextGather ==
    \/ Tick
    \/ CreateTasks
    \/ TaskStart
    \/ TaskComplete
    \/ gather
    \/ Report

SpecGather == InitGather /\ [][NextGather]_vars

(***************************************************************************)
(* Properties.                                                             *)
(***************************************************************************)
Finished(t) == t.pc \in {"done", "handled"}
Is2xx(resp) == resp.connected /\ 200 <= resp.status /\ resp.status <= 299
HasBoth(resp) == Has(resp.body, "result") /\ Has(resp.body, "error")
HasNeither(resp) == ~Has(resp.body, "result") /\ ~Has(resp.body, "error")

\* C1: every call of _call_tool, direct or through a wrapper, on either client,
\* sends exactly one request: a POST to {base_url}/message whose JSON envelope
\* has exactly the members jsonrpc "2.0", id, method "tools/call" and params,
\* with params.name and params.arguments equal to the name and the arguments
\* mapping _call_tool was given.
C1_CallToolEnvelope ==
    \A i \in DOMAIN tasks :
        (tasks[i].op \in ToolOps /\ tasks[i].pc # "created") =>
            LET t == tasks[i]
                r == t.requests[1]
            IN /\ Len(t.requests) = 1
               /\ r.verb = "POST"
               /\ r.url = base_url \o <<"/", "message">>
               /\ DOMAIN r.json = {"jsonrpc", "id", "method", "params"}
               /\ r.json.jsonrpc = "2.0"
               /\ r.json.method = "tools/call"
               /\ DOMAIN r.json.params = {"name", "arguments"}
               /\ r.json.params.name = t.tool_name
               /\ r.json.params.arguments = t.arguments
               /\ (t.op = "_call_tool" =>
                      /\ r.json.params.name = t.input.tool_name
                      /\ r.json.params.arguments = t.input.arguments)

C1_Witness ==
    \E i \in DOMAIN tasks :
        /\ tasks[i].op = "_call_tool"
        /\ Finished(tasks[i])
        /\ tasks[i].input.tool_name = "purge"
        /\ tasks[i].input.arguments = [url |-> "", pattern |-> "example.com"]
        /\ Len(tasks[i].requests) = 1

\* C2: when _call_tool receives a 2xx response, then: if the body has an error
\* member the call raises the invocation error, whose message carries that
\* error payload, and returns nothing; otherwise it returns the result member,
\* or an empty dict when there is none.
C2_CallToolUnwrap ==
    \A i \in DOMAIN tasks :
        (tasks[i].op \in ToolOps /\ Finished(tasks[i]) /\ Is2xx(tasks[i].responses[1])) =>
            LET body == tasks[i].responses[1].body
                o == tasks[i].outcome[1]
            IN IF "error" \in DOMAIN body.items
               THEN /\ o.kind = "raise"
                    /\ o.cls = InvocationErrorClass
                    /\ o.value.payload = body.items["error"]
               ELSE /\ o.kind = "return"
                    /\ o.value = (IF "result" \in DOMAIN body.items
                                  THEN body.items["result"]
                                  ELSE [type |-> "dict", items |-> <<>>])

C2_Witness ==
    \E i \in DOMAIN tasks :
        /\ tasks[i].op = "fetch_content"
        /\ Finished(tasks[i])
        /\ Is2xx(tasks[i].responses[1])
        /\ HasBoth(tasks[i].responses[1])
        /\ tasks[i].outcome[1].kind = "raise"

C4_GatherCorrespondence ==
    phase \in {"gathered", "reported"} =>
        /\ Len(results) = Len(tasks)
        /\ \A i \in DOMAIN tasks :
              LET t == tasks[i]
                  o == t.outcome[1]
                  resp == t.responses[1]
              IN /\ t.pc = "done"
                 /\ isinstance_Exception(results[i]) <=> (o.kind = "raise")
                 /\ (o.kind = "raise" =>
                        /\ results[i].type = o.cls
                        /\ results[i].args = o.value)
                 /\ (o.kind = "return" => results[i] = o.value)
                 /\ ((Is2xx(resp) /\ ~Has(resp.body, "error") /\ Has(resp.body, "result")) =>
                        results[i] = resp.body.items["result"])
        /\ (phase = "reported" =>
               failed = {i \in DOMAIN tasks : tasks[i].outcome[1].kind = "raise"})

C4_Witness ==
    /\ phase = "reported"
    /\ Len(tasks) = MaxTasks
    /\ order[1] = Len(tasks)
    /\ failed # {}
    /\ 1 \in failed
    /\ Cardinality(failed) < Len(tasks)
    /\ \E i \in DOMAIN tasks : tasks[i].outcome[1].kind = "return"

\* C5: list_tools POSTs an envelope with exactly the members jsonrpc, id and
\* method, method being "tools/list" (no params); on a 2xx response it returns
\* result.tools, or an empty list when result or result.tools is absent.
\* list_cache does the same with "resources/list" and result.resources.
C5_ListOperations ==
    \A i \in DOMAIN tasks :
        tasks[i].op \in ListOps =>
            LET t == tasks[i]
                r == t.requests[1]
                key == IF t.op = "list_tools" THEN "tools" ELSE "resources"
            IN /\ Len(t.requests) = 1
               /\ r.verb = "POST"
               /\ DOMAIN r.json = {"jsonrpc", "id", "method"}
               /\ r.json.method = (IF t.op = "list_tools" THEN "tools/list" ELSE "resources/list")
               /\ ((Finished(t) /\ Is2xx(t.responses[1])) =>
                      LET body == t.responses[1].body IN
                      /\ t.outcome[1].kind = "return"
                      /\ t.outcome[1].value =
                            (IF "result" \in DOMAIN body.items
                                /\ key \in DOMAIN body.items["result"].items
                             THEN body.items["result"].items[key]
                             ELSE [type |-> "list", items |-> <<>>]))

C5_Witness ==
    \E i \in DOMAIN tasks :
        /\ tasks[i].op = "list_cache"
        /\ Finished(tasks[i])
        /\ Is2xx(tasks[i].responses[1])
        /\ tasks[i].outcome[1].kind = "return"
        /\ tasks[i].outcome[1].value = List(<<"cache://1">>)

\* C6 as claimed: purge_cache sends arguments {} when pattern is None and
\* {"pattern": p} for every supplied string p, the empty string included.
C6_PurgePatternKey ==
    \A i \in DOMAIN tasks :
        (tasks[i].op = "purge_cache" /\ tasks[i].pc # "created") =>
            LET p == tasks[i].input.pattern
                sentArguments == tasks[i].requests[1].json.params.arguments
            IN /\ tasks[i].requests[1].json.params.name = "purge"
               /\ (p = None => sentArguments = <<>>)
               /\ (p # None => sentArguments = [pattern |-> p[1]])

\* C7 as claimed: an except clause for the class of the invocation error never
\* intercepts a failure of the transport (no response, or a status outside 2xx),
\* and an except clause for a transport class never intercepts the failure
\* raised for a response-level error member.
C7_DistinctErrorKinds ==
    \A i \in DOMAIN tasks :
        (tasks[i].pc = "handled" /\ tasks[i].caught) =>
            LET resp == tasks[i].responses[1]
                h == tasks[i].handler[1]
            IN /\ (h = InvocationErrorClass => Is2xx(resp))
               /\ (h \in TransportClasses => ~(Is2xx(resp) /\ Has(resp.body, "error")))

\* C8 as claimed: a 2xx response carrying both result and error, or neither, is
\* never turned into a normal return value by _call_tool, list_tools or
\* list_cache.
C8_ExactlyOneOfResultError ==
    \A i \in DOMAIN tasks :
        (/\ tasks[i].op \in ToolOps \cup ListOps
         /\ Finished(tasks[i])
         /\ Is2xx(tasks[i].responses[1])
         /\ (HasBoth(tasks[i].responses[1]) \/ HasNeither(tasks[i].responses[1]))) =>
            tasks[i].outcome[1].kind # "return"

\* C9 as claimed: no two requests POSTed on one client carry the same id.
C9_UniqueRequestIds ==
    \A i \in DOMAIN sent : \A j \in DOMAIN sent : i # j => sent[i] # sent[j]

\* C10 as claimed: every operation that POSTs to /message raises the invocation
\* error when the 2xx response carries an error member; none returns normally.
C10_NoErrorSuppressed ==
    \A i \in DOMAIN tasks :
        (/\ tasks[i].op \in ToolOps \cup ListOps
         /\ Finished(tasks[i])
         /\ Is2xx(tasks[i].responses[1])
         /\ Has(tasks[i].responses[1].body, "error")) =>
            /\ tasks[i].outcome[1].kind = "raise"
            /\ tasks[i].outcome[1].cls = InvocationErrorClass

====
